---- MODULE Spec2Model ----
(***************************************************************************)
(* Sample-selection pipeline of the freelaw repository:                    *)
(*   scripts/find_sample_data.py    analyze_json_file, find_good_samples,  *)
(*                                  main                                   *)
(*   data-analysis/create_sample_data.py   create_sample_data              *)
(* Python values are modelled as tagged records, Python strings that are   *)
(* parsed or formatted as sequences of one-character strings.              *)
(***************************************************************************)
EXTENDS Integers, Sequences, FiniteSets, TLC

VARIABLES json_files, source_dirs, pc, target_count, analyzed, good_samples, selected, log, selected_samples_json, sample_ids_txt, docket_copies, recap_copied, pdf_cases

vars == <<json_files, source_dirs, pc, target_count, analyzed, good_samples, selected, log, selected_samples_json, sample_ids_txt, docket_copies, recap_copied, pdf_cases>>

(***************************************************************************)
(* Bounds of the model.                                                    *)
(***************************************************************************)
\* largest number of files the stride samples out of a directory listing
MaxSampled == 3
\* largest target count passed to find_good_samples by a direct caller
MaxTarget == 3
\* largest number of entries of a hand-made selected_samples.json
MaxEntries == 2

(***************************************************************************)
(* Program constants.                                                      *)
(***************************************************************************)
SampleStride == 100
MinAvailableDocs == 5
MaxAvailableDocs == 50
MinFileSize == 100000
MaxFileSize == 1000000
DefaultTargetCount == 10
PdfThreshold == 10
MinPathParts == 3

(***************************************************************************)
(* Python / JSON values.                                                   *)
(***************************************************************************)
\* a key that is absent from a dict
Missing == [t |-> "missing"]
\* None / JSON null
None == [t |-> "null"]
IntV(n) == [t |-> "int", i |-> n]
StrV(s) == [t |-> "str", s |-> s]
BoolV(b) == [t |-> "bool", b |-> b]
ListV(l) == [t |-> "list", l |-> l]

\* d.get(key): None when the key is absent
Get(v) == IF v = Missing THEN None ELSE v

\* d.get(key, default)
GetDefault(v, default) == IF v = Missing THEN default ELSE v

\* Python truthiness of a value
Truthy(v) ==
  CASE v.t = "missing" -> FALSE
    [] v.t = "null" -> FALSE
    [] v.t = "bool" -> v.b
    [] v.t = "int" -> v.i # 0
    [] v.t = "str" -> Len(v.s) > 0
    [] v.t = "list" -> Len(v.l) > 0

Digits == <<"0", "1", "2", "3", "4", "5", "6", "7", "8", "9">>

RECURSIVE IntToStr(_)
\* str(n) of a non-negative int: its decimal digits
IntToStr(n) ==
  IF n < 10 THEN <<Digits[n + 1]>>
  ELSE IntToStr(n \div 10) \o <<Digits[(n % 10) + 1]>>

IsDigit(c) == \E d \in 1..10 : Digits[d] = c

DigitValue(c) == (CHOOSE d \in 1..10 : Digits[d] = c) - 1

RECURSIVE StrToInt(_)
\* int(s) of a non-empty string of decimal digits
StrToInt(s) ==
  IF Len(s) = 1 THEN DigitValue(s[1])
  ELSE 10 * StrToInt(SubSeq(s, 1, Len(s) - 1)) + DigitValue(s[Len(s)])

AllDigits(s) == Len(s) > 0 /\ \A k \in 1..Len(s) : IsDigit(s[k])

\* s.startswith(prefix)
StartsWith(s, prefix) ==
  Len(s) >= Len(prefix) /\ SubSeq(s, 1, Len(prefix)) = prefix

RECURSIVE SplitFrom(_, _, _, _)
\* s.split(sep) as a left-to-right scan: cur is the part being read
SplitFrom(s, sep, k, cur) ==
  IF k > Len(s) THEN <<cur>>
  ELSE IF s[k] = sep THEN <<cur>> \o SplitFrom(s, sep, k + 1, <<>>)
  ELSE SplitFrom(s, sep, k + 1, Append(cur, s[k]))

Split(s, sep) == SplitFrom(s, sep, 1, <<>>)

(***************************************************************************)
(* scripts/find_sample_data.py: analyze_json_file                          *)
(***************************************************************************)
Unknown == <<"U", "n", "k", "n", "o", "w", "n">>

\* line 31 with `or` in place of `and`
DocAvailableWrongOr(doc) == Truthy(Get(doc.is_available)) \/ Truthy(Get(doc.filepath_local))

\* the test of line 31 on one recap document
DocAvailable(doc) == Truthy(Get(doc.is_available)) /\ Truthy(Get(doc.filepath_local))

RECURSIVE CountDocs(_, _)
\* lines 29-32: what the loop over one entry's documents has added to the two
\* counters after its first k documents
CountDocs(docs, k) ==
  IF k = 0 THEN [total_docs |-> 0, available_docs |-> 0]
  ELSE LET acc == CountDocs(docs, k - 1)
       IN [total_docs |-> acc.total_docs + 1,
           available_docs |-> acc.available_docs + (IF DocAvailable(docs[k]) THEN 1 ELSE 0)]

RECURSIVE CountEntries(_, _)
\* lines 27-32: the counters after the first k docket entries
CountEntries(entries, k) ==
  IF k = 0 THEN [total_docs |-> 0, available_docs |-> 0]
  ELSE LET acc == CountEntries(entries, k - 1)
           docs == entries[k].recap_documents
           added == CountDocs(docs.l, Len(docs.l))
       IN IF docs # Missing
            THEN [total_docs |-> acc.total_docs + added.total_docs,
                  available_docs |-> acc.available_docs + added.available_docs]
            ELSE acc

\* lines 23-32: both counters start at 0; no docket_entries key, no counting
CountRecord(data) ==
  IF data.docket_entries # Missing
    THEN CountEntries(data.docket_entries.l, Len(data.docket_entries.l))
    ELSE [total_docs |-> 0, available_docs |-> 0]

\* analyze_json_file: the summary of a file, or None when open/json.load raises
AnalyzeJsonFile(file) ==
  IF ~file.readable THEN None
  ELSE LET counts == CountRecord(file.data)
       IN [t |-> "dict",
           id |-> Get(file.data.id),
           court |-> GetDefault(file.data.court, StrV(Unknown)),
           file_size |-> file.st_size,
           total_docs |-> counts.total_docs,
           available_docs |-> counts.available_docs,
           filepath |-> file.path]

(***************************************************************************)
(* scripts/find_sample_data.py: find_good_samples                          *)
(***************************************************************************)
\* json_files[::100]
SampleFiles(files) ==
  [k \in 1..((Len(files) + SampleStride - 1) \div SampleStride) |->
     files[(k - 1) * SampleStride + 1]]

RECURSIVE AnalyzeAllAbort(_, _)
\* the loop of lines 60-66 if the first failure ended the batch
AnalyzeAllAbort(sample_files, i) ==
  IF i = 0 THEN <<>>
  ELSE LET acc == AnalyzeAllAbort(sample_files, i - 1)
           result == AnalyzeJsonFile(sample_files[i])
       IN IF result # None /\ Len(acc) = i - 1 THEN Append(acc, result) ELSE acc

RECURSIVE AnalyzeAll(_, _)
\* lines 60-66: `analyzed` after the first i sampled files; a None result is not appended
AnalyzeAll(sample_files, i) ==
  IF i = 0 THEN <<>>
  ELSE LET acc == AnalyzeAll(sample_files, i - 1)
           result == AnalyzeJsonFile(sample_files[i])
       IN IF result # None THEN Append(acc, result) ELSE acc

\* the paths printed by line 48, in order
ErrorLog(sample_files) ==
  LET Failed(f) == AnalyzeJsonFile(f) = None
      failed == SelectSeq(sample_files, Failed)
  IN [k \in 1..Len(failed) |-> failed[k].path]

\* the filter with the four bounds exclusive
EligibleExclusive(case) ==
  /\ case.available_docs > MinAvailableDocs
  /\ case.available_docs < MaxAvailableDocs
  /\ case.file_size > MinFileSize
  /\ case.file_size < MaxFileSize

\* the filter of lines 69-75
Eligible(case) ==
  /\ case.available_docs >= MinAvailableDocs
  /\ case.available_docs <= MaxAvailableDocs
  /\ case.file_size >= MinFileSize
  /\ case.file_size <= MaxFileSize

RECURSIVE InsertDescUnstable(_, _)
\* descending insertion that puts x before the elements of equal key
InsertDescUnstable(sorted, x) ==
  IF sorted = <<>> THEN <<x>>
  ELSE IF Head(sorted).available_docs > x.available_docs
         THEN <<Head(sorted)>> \o InsertDescUnstable(Tail(sorted), x)
         ELSE <<x>> \o sorted

RECURSIVE InsertDesc(_, _)
\* place x after every element whose key is >= its own (stable, descending)
InsertDesc(sorted, x) ==
  IF sorted = <<>> THEN <<x>>
  ELSE IF Head(sorted).available_docs >= x.available_docs
         THEN <<Head(sorted)>> \o InsertDesc(Tail(sorted), x)
         ELSE <<x>> \o sorted

RECURSIVE SortPrefix(_, _)
\* the first k elements of s, sorted
SortPrefix(s, k) ==
  IF k = 0 THEN <<>> ELSE InsertDesc(SortPrefix(s, k - 1), s[k])

\* line 80 left out
SortNone(s) == s

\* line 80: list.sort(key=available_docs, reverse=True), which is stable
SortByAvailableDocsDesc(s) == SortPrefix(s, Len(s))

\* `case in selected`: list membership by ==
InList(case, list) == \E j \in 1..Len(list) : list[j] = case

RECURSIVE FirstPassNoCourtCheck(_, _, _)
\* the first pass without the test on courts_seen
FirstPassNoCourtCheck(good, k, N) ==
  IF k = 0 THEN [selected |-> <<>>, courts_seen |-> {}]
  ELSE LET st == FirstPassNoCourtCheck(good, k - 1, N)
       IN IF Len(st.selected) < N
            THEN [selected |-> Append(st.selected, good[k]),
                  courts_seen |-> st.courts_seen \cup {good[k].court}]
            ELSE st

RECURSIVE FirstPass(_, _, _)
\* lines 83-90: selected and courts_seen after the first k cases of the ranked list
FirstPass(good, k, N) ==
  IF k = 0 THEN [selected |-> <<>>, courts_seen |-> {}]
  ELSE LET st == FirstPass(good, k - 1, N)
       IN IF good[k].court \notin st.courts_seen /\ Len(st.selected) < N
            THEN [selected |-> Append(st.selected, good[k]),
                  courts_seen |-> st.courts_seen \cup {good[k].court}]
            ELSE st

RECURSIVE SecondPassNoMembership(_, _, _, _)
\* the second pass without the test `case not in selected`
SecondPassNoMembership(good, k, start, N) ==
  IF k = 0 THEN start
  ELSE LET sel == SecondPassNoMembership(good, k - 1, start, N)
       IN IF Len(sel) < N THEN Append(sel, good[k]) ELSE sel

RECURSIVE SecondPass(_, _, _, _)
\* lines 93-95: selected after the first k cases of the ranked list, from start
SecondPass(good, k, start, N) ==
  IF k = 0 THEN start
  ELSE LET sel == SecondPass(good, k - 1, start, N)
       IN IF ~InList(good[k], sel) /\ Len(sel) < N THEN Append(sel, good[k]) ELSE sel

\* selected[:target_count] for target_count >= 0
Truncate(s, N) == SubSeq(s, 1, IF Len(s) < N THEN Len(s) ELSE N)

\* lines 83-97 on the ranked list
SelectDiverse(good, N) ==
  LET first == FirstPass(good, Len(good), N)
  IN Truncate(SecondPass(good, Len(good), first.selected, N), N)

\* lines 60-97 on the sampled files: every intermediate list and the returned one
SelectFrom(sample_files, N) ==
  LET an == AnalyzeAll(sample_files, Len(sample_files))
      good == SortByAvailableDocsDesc(SelectSeq(an, Eligible))
  IN [analyzed |-> an,
      good_samples |-> good,
      selected |-> SelectDiverse(good, N),
      log |-> ErrorLog(sample_files)]

\* find_good_samples(data_dir, N) on the listing of data_dir
FindGoodSamplesRun(files, N) == SelectFrom(SampleFiles(files), N)

(***************************************************************************)
(* scripts/find_sample_data.py: main, the two artifacts                    *)
(***************************************************************************)
Quote == "\""
NullToken == <<"n", "u", "l", "l">>
NoneText == <<"N", "o", "n", "e">>

\* json.dumps of None, an int or a str (no character of the model needs escaping)
JsonDumpValue(v) ==
  CASE v.t = "null" -> NullToken
    [] v.t = "int" -> IntToStr(v.i)
    [] v.t = "str" -> <<Quote>> \o v.s \o <<Quote>>

\* json.loads of one token
JsonLoadValue(tok) ==
  IF tok = NullToken THEN None
  ELSE IF tok[1] = Quote THEN StrV(SubSeq(tok, 2, Len(tok) - 1))
  ELSE IntV(StrToInt(tok))

\* json.dump of one summary: the text of each field
JsonDumpCase(case) ==
  [id |-> JsonDumpValue(case.id),
   court |-> JsonDumpValue(case.court),
   file_size |-> IntToStr(case.file_size),
   total_docs |-> IntToStr(case.total_docs),
   available_docs |-> IntToStr(case.available_docs),
   filepath |-> <<Quote>> \o case.filepath \o <<Quote>>]

\* json.load of one object of selected_samples.json
JsonLoadCase(obj) ==
  [t |-> "dict",
   id |-> JsonLoadValue(obj.id),
   court |-> JsonLoadValue(obj.court),
   file_size |-> StrToInt(obj.file_size),
   total_docs |-> StrToInt(obj.total_docs),
   available_docs |-> StrToInt(obj.available_docs),
   filepath |-> SubSeq(obj.filepath, 2, Len(obj.filepath) - 1)]

JsonDump(samples) == [k \in 1..Len(samples) |-> JsonDumpCase(samples[k])]

JsonLoad(doc) == [k \in 1..Len(doc) |-> JsonLoadCase(doc[k])]

\* f"{value}": str() of None, an int or a str
FormatValue(v) ==
  CASE v.t = "null" -> NoneText
    [] v.t = "int" -> IntToStr(v.i)
    [] v.t = "str" -> v.s

\* lines 124-126: one line per case, the newline is the line's end
WriteIds(samples) == [k \in 1..Len(samples) |-> FormatValue(samples[k].id)]

(***************************************************************************)
(* data-analysis/create_sample_data.py: create_sample_data                 *)
(***************************************************************************)
RecapPrefix == <<"r", "e", "c", "a", "p", "/">>
JsonSuffix == <<".", "j", "s", "o", "n">>

\* the file a path names
FileAt(files, path) == files[CHOOSE i \in 1..Len(files) : files[i].path = path]

\* lines 55-61: the directory a filepath_local names, if it has the shape
PdfDirOf(pdf_path) ==
  IF StartsWith(pdf_path, RecapPrefix)
    THEN LET parts == Split(pdf_path, "/")
         IN IF Len(parts) >= MinPathParts THEN {parts[2]} ELSE {}
    ELSE {}

RECURSIVE CollectDocs(_, _)
\* lines 53-61: what the first k documents of one entry add to pdf_dirs
CollectDocs(docs, k) ==
  IF k = 0 THEN {}
  ELSE LET pdf_dirs == CollectDocs(docs, k - 1)
       IN IF Truthy(Get(docs[k].is_available)) /\ Truthy(Get(docs[k].filepath_local))
            THEN pdf_dirs \cup PdfDirOf(docs[k].filepath_local.s)
            ELSE pdf_dirs

RECURSIVE CollectEntries(_, _)
\* lines 49-61: pdf_dirs after the first k entries; a missing key reads as the empty list
CollectEntries(entries, k) ==
  IF k = 0 THEN {}
  ELSE LET docs == GetDefault(entries[k].recap_documents, ListV(<<>>)).l
       IN CollectEntries(entries, k - 1) \cup CollectDocs(docs, Len(docs))

\* lines 45-61: the directories the case's source file refers to
PdfDirs(file) ==
  LET entries == GetDefault(file.data.docket_entries, ListV(<<>>)).l
  IN CollectEntries(entries, Len(entries))

\* line 41 without i == 0
PdfCaseAnyPosition(i, case) == case.available_docs > PdfThreshold

\* line 41 with >= in place of >
PdfCaseInclusive(i, case) == i = 0 /\ case.available_docs >= PdfThreshold

\* line 41, i counted from 0
PdfCase(i, case) == i = 0 /\ case.available_docs > PdfThreshold

RECURSIVE CopyCases(_, _, _, _)
\* lines 28-77: what was copied after the first k cases (enumerate's i is k - 1)
CopyCases(samples, k, files, dirs) ==
  IF k = 0 THEN [docket_copies |-> <<>>, recap_copied |-> {}, pdf_cases |-> {}]
  ELSE LET st == CopyCases(samples, k - 1, files, dirs)
           case == samples[k]
           copy == [src |-> case.filepath, dest |-> FormatValue(case.id) \o JsonSuffix]
       IN IF PdfCase(k - 1, case)
            THEN [docket_copies |-> Append(st.docket_copies, copy),
                  recap_copied |-> st.recap_copied \cup
                     {d \in PdfDirs(FileAt(files, case.filepath)) : d \in dirs},
                  pdf_cases |-> st.pdf_cases \cup {k}]
            ELSE [docket_copies |-> Append(st.docket_copies, copy),
                  recap_copied |-> st.recap_copied,
                  pdf_cases |-> st.pdf_cases]

\* create_sample_data: load the selection, copy case by case
CreateSampleDataRun(doc, files, dirs) ==
  LET samples == JsonLoad(doc)
  IN CopyCases(samples, Len(samples), files, dirs)

(***************************************************************************)
(* Inputs: case-record files, directory listings, PDF directories.         *)
(***************************************************************************)
D0 == <<"d", "0">>
D1 == <<"d", "1">>
D2 == <<"d", "2">>
D3 == <<"d", "3">>
Cacd == <<"c", "a", "c", "d">>
Nysd == <<"n", "y", "s", "d">>

RecapPath(dir) == RecapPrefix \o dir \o <<"/", "f">>

AvailDoc(dir) == [is_available |-> BoolV(TRUE), filepath_local |-> StrV(RecapPath(dir))]

\* documents that are not available: no path, empty path, null path, no flag, false flag
UnavailableDocs ==
  << [is_available |-> BoolV(TRUE), filepath_local |-> StrV(<<>>)],
     [is_available |-> BoolV(TRUE), filepath_local |-> Missing],
     [is_available |-> BoolV(TRUE), filepath_local |-> None],
     [is_available |-> BoolV(FALSE), filepath_local |-> StrV(RecapPath(D0))],
     [is_available |-> Missing, filepath_local |-> StrV(RecapPath(D0))],
     [is_available |-> IntV(0), filepath_local |-> StrV(RecapPath(D0))],
     [is_available |-> None, filepath_local |-> Missing] >>

\* available documents whose path has not the shape recap/<dir>/<file>
OddDocs ==
  << [is_available |-> BoolV(TRUE), filepath_local |-> StrV(<<"r", "e", "c", "a", "p", "/", "f">>)],
     [is_available |-> IntV(1), filepath_local |-> StrV(<<"p", "d", "f", "/", "d", "0", "/", "f">>)] >>

\* the available documents of one directory come in entries of at most ChunkDocs
ChunkDocs == 10

Chunk(n, c, dir) ==
  [recap_documents |->
     ListV([k \in 1..(IF n - (c - 1) * ChunkDocs < ChunkDocs THEN n - (c - 1) * ChunkDocs ELSE ChunkDocs) |-> AvailDoc(dir)])]

\* docket entries with n >= 3 available documents among others, n - 3 of them in dir
Docket(n, dir) ==
  ListV([c \in 1..((n - 3 + ChunkDocs - 1) \div ChunkDocs) |-> Chunk(n - 3, c, dir)]
        \o << [recap_documents |-> Missing],
              [recap_documents |-> ListV(UnavailableDocs)],
              [recap_documents |-> ListV(<<>>)],
              [recap_documents |-> ListV(<<AvailDoc(D3)>> \o OddDocs)] >>)

DocCounts == {4, 5, 10, 11, 50, 51}
FileSizes == {99999, 100000, 1000000, 1000001}

\* what one sampled file holds (docs = -1: the record has no docket_entries)
FullTemplates ==
  [readable : {TRUE}, st_size : FileSizes, court : {StrV(Cacd), Missing},
   has_id : BOOLEAN, docs : DocCounts \cup {-1}, dir : {D1}]

Tpl(size, court, has_id, docs, dir) ==
  [readable |-> TRUE, st_size |-> size, court |-> court, has_id |-> has_id, docs |-> docs, dir |-> dir]

Unreadable ==
  [readable |-> FALSE, st_size |-> 100000, court |-> Missing, has_id |-> FALSE, docs |-> -1, dir |-> D1]

CoreTemplates ==
  {Tpl(100000, StrV(Cacd), TRUE, 50, D1),
   Tpl(100000, StrV(Cacd), TRUE, 11, D1),
   Tpl(100000, StrV(Nysd), TRUE, 11, D2),
   Tpl(500000, StrV(Nysd), TRUE, 5, D2),
   Tpl(1000000, Missing, FALSE, 11, D1),
   Tpl(100000, StrV(Cacd), TRUE, 4, D1),
   Unreadable}

PathOf(i) == IntToStr(i) \o JsonSuffix

\* the file at listing position i built from a template
MkFile(i, tpl) ==
  [path |-> PathOf(i),
   readable |-> tpl.readable,
   st_size |-> tpl.st_size,
   data |-> [id |-> IF tpl.has_id THEN IntV(4179280 + i) ELSE Missing,
             court |-> tpl.court,
             docket_entries |-> IF tpl.docs < 0 THEN Missing ELSE Docket(tpl.docs, tpl.dir)]]

\* a file the stride passes over
Filler(i) ==
  [path |-> PathOf(i), readable |-> TRUE, st_size |-> 500000,
   data |-> [id |-> IntV(4179280 + i), court |-> StrV(Cacd), docket_entries |-> Missing]]

\* the files between the sampled positions of the longest listing
Fillers == [i \in 1..(MaxSampled * SampleStride) |-> Filler(i)]

\* a listing of len files whose sampled positions hold the given templates
Listing(len, tpls) ==
  [i \in 1..len |->
     IF (i - 1) % SampleStride = 0
       THEN MkFile(i, tpls[((i - 1) \div SampleStride) + 1])
       ELSE Fillers[i]]

\* the directory listings: empty, one sampled file of any kind (the stride passes
\* over up to 99 more), or up to MaxSampled sampled files of the core kinds
IsListing(files) ==
  \/ files = <<>>
  \/ \E tpl \in FullTemplates \cup {Unreadable} : files = Listing(1, <<tpl>>)
  \/ \E tpl \in CoreTemplates : files = Listing(SampleStride, <<tpl>>)
  \/ \E n \in 2..MaxSampled : \E tpls \in [1..n -> CoreTemplates] :
       files = Listing((n - 1) * SampleStride + 1, tpls)

\* which directories exist under data/sata/recap
DirChoices == {{}, {D0, D1, D3}, {D0, D1, D2, D3}}

\* a file of the working directory: absent, or present with its content
NoFile == [exists |-> FALSE]
FileOf(content) == [exists |-> TRUE, content |-> content]

(***************************************************************************)
(* The scripts as a state machine.                                         *)
(***************************************************************************)
Init ==
  /\ IsListing(json_files)
  /\ source_dirs = {}
  /\ pc = "start"
  /\ target_count = 0
  /\ analyzed = <<>>
  /\ good_samples = <<>>
  /\ selected = <<>>
  /\ log = <<>>
  /\ selected_samples_json = NoFile
  /\ sample_ids_txt = NoFile
  /\ docket_copies = <<>>
  /\ recap_copied = {}
  /\ pdf_cases = {}

\* find_good_samples(data_dir, N) called on its own
FindGoodSamples(N) ==
  /\ pc = "start"
  /\ \E run \in {FindGoodSamplesRun(json_files, N)} :
        /\ analyzed' = run.analyzed
        /\ good_samples' = run.good_samples
        /\ selected' = run.selected
        /\ log' = run.log
  /\ target_count' = N
  /\ pc' = "returned"
  /\ UNCHANGED <<json_files, source_dirs, selected_samples_json, sample_ids_txt, docket_copies, recap_copied, pdf_cases>>

\* main: find_good_samples with the default target count, then both artifacts
Main ==
  /\ pc = "start"
  /\ \E run \in {FindGoodSamplesRun(json_files, DefaultTargetCount)} :
        /\ analyzed' = run.analyzed
        /\ good_samples' = run.good_samples
        /\ selected' = run.selected
        /\ log' = run.log
        /\ selected_samples_json' = FileOf(JsonDump(run.selected))
        /\ sample_ids_txt' = FileOf(WriteIds(run.selected))
  /\ target_count' = DefaultTargetCount
  /\ pc' = "written"
  /\ UNCHANGED <<json_files, source_dirs, docket_copies, recap_copied, pdf_cases>>

\* create_sample_data on the selected_samples.json on disk
CreateSampleData ==
  /\ pc = "written"
  /\ selected_samples_json.exists
  /\ \E dirs \in DirChoices :
       \E run \in {CreateSampleDataRun(selected_samples_json.content, json_files, dirs)} :
          /\ source_dirs' = dirs
          /\ docket_copies' = run.docket_copies
          /\ recap_copied' = run.recap_copied
          /\ pdf_cases' = run.pdf_cases
  /\ pc' = "materialized"
  /\ UNCHANGED <<json_files, target_count, analyzed, good_samples, selected, log, selected_samples_json, sample_ids_txt>>

Next ==
  \/ \E N \in 0..MaxTarget : FindGoodSamples(N)
  \/ Main
  \/ CreateSampleData

Spec == Init /\ [][Next]_vars

(***************************************************************************)
(* create_sample_data run on its own: selected_samples.json is whatever    *)
(* list of summaries is on disk, its paths naming files that exist.        *)
(***************************************************************************)
SourceFiles ==
  {<<MkFile(1, Tpl(100000, StrV(Cacd), TRUE, 11, D1)), MkFile(2, Tpl(100000, StrV(Nysd), TRUE, 50, D2))>>,
   <<MkFile(1, Tpl(100000, StrV(Cacd), TRUE, 5, D1)), MkFile(2, Tpl(100000, Missing, FALSE, -1, D2))>>}

\* the summaries a selection on disk may hold
Entries(files) ==
  [t : {"dict"}, id : {IntV(7)}, court : {StrV(Cacd)}, file_size : {100000},
   total_docs : {60}, available_docs : {3, 10, 11, 12},
   filepath : {files[i].path : i \in 1..Len(files)}]

Selections(files) == UNION {[1..n -> Entries(files)] : n \in 0..MaxEntries}

InitMat ==
  /\ json_files \in SourceFiles
  /\ \E sel \in Selections(json_files) : selected_samples_json = FileOf(JsonDump(sel))
  /\ source_dirs = {}
  /\ pc = "written"
  /\ target_count = 0
  /\ analyzed = <<>>
  /\ good_samples = <<>>
  /\ selected = <<>>
  /\ log = <<>>
  /\ sample_ids_txt = NoFile
  /\ docket_copies = <<>>
  /\ recap_copied = {}
  /\ pdf_cases = {}

NextMat == CreateSampleData

SpecMat == InitMat /\ [][NextMat]_vars

(***************************************************************************)
(* Properties.  Helper definitions state what the specification says,      *)
(* without the loops of the code.                                          *)
(***************************************************************************)
CourtsOf(s) == {s[k].court : k \in 1..Len(s)}

\* the k-th smallest element of a finite set of integers
Nth(S, k) == CHOOSE i \in S : Cardinality({j \in S : j < i}) = k - 1

\* the subsequence of s at the positions of S, in order
SubSeqAt(s, S) == [k \in 1..Cardinality(S) |-> s[Nth(S, k)]]

MinOf(a, b) == IF a < b THEN a ELSE b

InRanges(case) ==
  /\ case.available_docs \in 5..50
  /\ case.file_size \in 100000..1000000

\* the positions <<entry, document>> of the recap documents of a record
DocPositions(data) ==
  IF data.docket_entries = Missing THEN {}
  ELSE LET entries == data.docket_entries.l
       IN UNION {IF entries[e].recap_documents = Missing THEN {}
                 ELSE {<<e, d>> : d \in 1..Len(entries[e].recap_documents.l)} : e \in 1..Len(entries)}

DocAt(data, pos) == data.docket_entries.l[pos[1]].recap_documents.l[pos[2]]

FlagTruthy(v) == v \notin {Missing, None, BoolV(FALSE), IntV(0), StrV(<<>>)}

NonEmptyString(v) == v.t = "str" /\ v.s # <<>>

AvailablePositions(data) ==
  {pos \in DocPositions(data) :
     FlagTruthy(DocAt(data, pos).is_available) /\ NonEmptyString(DocAt(data, pos).filepath_local)}

\* C1: when the eligible summaries hold at least target_count distinct courts,
\* no two entries of the returned selection have the same court
C1_DistinctCourts ==
  (pc # "start" /\ Cardinality(CourtsOf(good_samples)) >= target_count)
    => \A i, j \in 1..Len(selected) : i # j => selected[i].court # selected[j].court

\* C1 witness: three eligible summaries of two courts, the two best of one court,
\* and a selection of two
C1_Witness ==
  /\ pc = "returned"
  /\ target_count = 2
  /\ Len(good_samples) = 3
  /\ Cardinality(CourtsOf(good_samples)) = 2
  /\ good_samples[1].court = good_samples[2].court
  /\ Len(selected) = 2

\* C2: the selection has exactly min(N, |E|) entries, each one an eligible
\* summary, none of them twice
C2_ExactLength ==
  pc # "start" =>
    /\ Len(selected) = MinOf(target_count, Len(good_samples))
    /\ \A i \in 1..Len(selected) : \E k \in 1..Len(good_samples) : good_samples[k] = selected[i]
    /\ \A i, j \in 1..Len(selected) : i # j => selected[i] # selected[j]

\* C2 witness: the fill pass has added a second summary of a court
C2_Witness ==
  /\ pc = "returned"
  /\ target_count = 3
  /\ Len(good_samples) = 3
  /\ Cardinality(CourtsOf(good_samples)) = 2
  /\ Len(selected) = 3

\* C3: an analyzed summary is kept by the filter iff 5 <= available_docs <= 50 and
\* 100000 <= file_size <= 1000000, and every selected entry is in both ranges
C3_FilterBounds ==
  pc # "start" =>
    /\ \A k \in 1..Len(analyzed) :
         (\E g \in 1..Len(good_samples) : good_samples[g] = analyzed[k]) <=> InRanges(analyzed[k])
    /\ \A i \in 1..Len(selected) : InRanges(selected[i])

\* C3 witness: a summary on the upper bound of both ranges is selected
C3_Witness ==
  /\ pc = "returned"
  /\ Len(selected) = 1
  /\ selected[1].available_docs = 50
  /\ selected[1].file_size = 1000000

\* C4: total_docs is the number of recap documents of the record, available_docs
\* the number of those with a truthy flag and a non-empty path, and
\* 0 <= available_docs <= total_docs
C4_Counts ==
  pc # "start" =>
    \A k \in 1..Len(analyzed) :
      LET data == FileAt(json_files, analyzed[k].filepath).data
      IN /\ analyzed[k].total_docs = Cardinality(DocPositions(data))
         /\ analyzed[k].available_docs = Cardinality(AvailablePositions(data))
         /\ 0 <= analyzed[k].available_docs
         /\ analyzed[k].available_docs <= analyzed[k].total_docs

\* C4 witness: a record whose documents are partly available
C4_Witness ==
  /\ pc = "returned"
  /\ \E k \in 1..Len(analyzed) :
       /\ analyzed[k].available_docs = 11
       /\ analyzed[k].total_docs > 11

\* the sampled files that parse
ReadableSamples == SelectSeq(SampleFiles(json_files), LAMBDA f : f.readable)

\* C5: a file that fails to parse is logged and skipped, the later files are still
\* analyzed, and the selection is the one of the sampled files without the failing ones
C5_SkipAndContinue ==
  pc # "start" =>
    /\ Len(analyzed) = Len(ReadableSamples)
    /\ \A k \in 1..Len(analyzed) : analyzed[k].filepath = ReadableSamples[k].path
    /\ Len(log) = Len(SampleFiles(json_files)) - Len(ReadableSamples)
    /\ selected = SelectFrom(ReadableSamples, target_count).selected

\* C5 witness: a file after a failing one is in the selection
C5_Witness ==
  /\ pc = "returned"
  /\ Len(log) = 1
  /\ ~SampleFiles(json_files)[1].readable
  /\ Len(selected) = 2

\* the identifier a reader of sample_ids.txt gets from one line
ReadIdLine(line) == IF AllDigits(line) THEN IntV(StrToInt(line)) ELSE StrV(line)

\* C6: line k of sample_ids.txt is the id field of entry k of selected_samples.json,
\* for every selection, also one with a summary whose record had no id
C6_IdsRoundTrip ==
  (pc \in {"written", "materialized"} /\ sample_ids_txt.exists) =>
    /\ Len(sample_ids_txt.content) = Len(selected_samples_json.content)
    /\ \A k \in 1..Len(sample_ids_txt.content) :
         ReadIdLine(sample_ids_txt.content[k]) = JsonLoadValue(selected_samples_json.content[k].id)

\* the selection create_sample_data reads
Consumed == JsonLoad(selected_samples_json.content)

AllDirs == {D0, D1, D2, D3}

\* the directories dir such that an available document of the file has a path
\* recap/<dir>/<file>
ReferencedDirs(file) ==
  {dir \in AllDirs :
     \E pos \in AvailablePositions(file.data) :
       StartsWith(DocAt(file.data, pos).filepath_local.s, RecapPrefix \o dir \o <<"/">>)}

\* the positions of the entries with more than 10 available documents
Over10 == {k \in 1..Len(Consumed) : Consumed[k].available_docs > 10}

\* C7: first entry with available_docs > 10: every existing directory its available
\* documents refer to is copied; first entry with available_docs <= 10: no PDF
\* directory is copied for any entry; every entry's JSON file is copied either way
C7_FirstEntryDecides ==
  (pc = "materialized" /\ Len(Consumed) >= 1) =>
    /\ Consumed[1].available_docs > 10 =>
         \A dir \in ReferencedDirs(FileAt(json_files, Consumed[1].filepath)) :
           dir \in source_dirs => dir \in recap_copied
    /\ Consumed[1].available_docs <= 10 => (recap_copied = {} /\ pdf_cases = {})
    /\ Len(docket_copies) = Len(Consumed)
    /\ \A k \in 1..Len(Consumed) : docket_copies[k].src = Consumed[k].filepath

\* C7 witness: a first entry with 11 available documents, one of its directories
\* copied and another one missing from the source root
C7_Witness ==
  /\ pc = "materialized"
  /\ Len(Consumed) = 2
  /\ Consumed[1].available_docs = 11
  /\ recap_copied # {}
  /\ \E dir \in ReferencedDirs(FileAt(json_files, Consumed[1].filepath)) : dir \notin source_dirs

Pool == SelectSeq(analyzed, InRanges)

PoolIndex(case) == CHOOSE k \in 1..Len(Pool) : Pool[k] = case

\* the positions of the ranked list holding the first summary of their court
FirstOfCourt == {k \in 1..Len(good_samples) : \A j \in 1..(k - 1) : good_samples[j].court # good_samples[k].court}

\* C9: the ranked list is the eligible pool by descending available_docs, ties in
\* the order of the filtering pass; the result is D ++ F cut to N, D the first summary
\* of each court and F the others, both in rank order
C9_DiversifyThenFill ==
  pc # "start" =>
    /\ Len(good_samples) = Len(Pool)
    /\ \A k \in 1..Len(Pool) : \E g \in 1..Len(good_samples) : good_samples[g] = Pool[k]
    /\ \A i, j \in 1..Len(good_samples) :
         i < j =>
           \/ good_samples[i].available_docs > good_samples[j].available_docs
           \/ /\ good_samples[i].available_docs = good_samples[j].available_docs
              /\ PoolIndex(good_samples[i]) < PoolIndex(good_samples[j])
    /\ selected =
         SubSeq(SubSeqAt(good_samples, FirstOfCourt)
                  \o SubSeqAt(good_samples, (1..Len(good_samples)) \ FirstOfCourt),
                1, MinOf(target_count, Len(good_samples)))

\* C9 witness: an entry of the fill pass has more available documents than an
\* earlier entry of the diversify pass
C9_Witness ==
  /\ pc = "returned"
  /\ Len(selected) = 3
  /\ selected[2].available_docs < selected[3].available_docs
  /\ selected[1].court = selected[3].court

\* C10: with a non-empty pool and N >= 1 the first entry is the top-ranked summary
\* and has the most available documents of the pool; in a selection written by main
\* no later entry has available_docs > 10 unless the first has, and the one entry
\* whose PDFs create_sample_data copies is the earliest with available_docs > 10
C10_FirstIsMaximum ==
  /\ (pc # "start" /\ Len(Pool) >= 1 /\ target_count >= 1) =>
       /\ selected[1] = good_samples[1]
       /\ \A k \in 1..Len(Pool) : Pool[k].available_docs <= selected[1].available_docs
  /\ pc = "materialized" =>
       /\ \A k \in Over10 : 1 \in Over10
       /\ pdf_cases = (IF Over10 = {} THEN {} ELSE {Nth(Over10, 1)})

\* C10 witness: two entries with more than 10 available documents, the PDFs of the
\* first one copied
C10_Witness ==
  /\ pc = "materialized"
  /\ Cardinality(Over10) = 2
  /\ pdf_cases = {1}
  /\ recap_copied # {}

====
